---------------------------- MODULE Spec2Model ----------------------------
(***************************************************************************)
(* Model of GS3DScreenshot (pcsx2/GS/GS3DScreenshot.{h,cpp}): the batch    *)
(* accumulator (SetTextureName, SetTextureRegion, AddTri), the wrap-region *)
(* resolver (GetTextureRegionForCLAMP) and the serializer (DumpToFile,     *)
(* DumpOBJ, DumpMTL).                                                      *)
(*                                                                         *)
(* Floats are modelled by exact rationals <<n, d>> in lowest terms, d > 0. *)
(***************************************************************************)
EXTENDS Integers, Sequences, FiniteSets, TLC

VARIABLES
    m_tris,               \* std::vector<Tri>
    m_textures,           \* std::vector<std::string>
    m_texture_map,        \* std::unordered_map<std::string, u32>
    m_cur_texture_index,  \* u32, no initializer
    m_u_offset, m_v_offset, m_u_scale, m_v_scale,
    fs,                   \* the files under m_dump_dir: path -> contents
    pc,                   \* "run", or "crashed" once a dump has faulted
    dumpLog,              \* history: the last DumpToFile call, if any, with
                          \* what it did to its file handles
    submitted,            \* history: per AddTri, the arguments as submitted
    lastRegion,           \* history: arguments of the last SetTextureRegion
    lastName,             \* history: argument of the last SetTextureName
    firstCalls,           \* history: the names passed to SetTextureName,
                          \* each at its first call
    isEmptyRet,           \* history: value returned by the last IsEmpty call
    clampIn,              \* arguments of GetTextureRegionForCLAMP
    region                \* its returned TextureRegion

vars == <<m_tris, m_textures, m_texture_map, m_cur_texture_index,
          m_u_offset, m_v_offset, m_u_scale, m_v_scale, fs, pc, dumpLog,
          submitted, lastRegion, lastName, firstCalls, isEmptyRet,
          clampIn, region>>

batchVars == <<m_tris, m_textures, m_texture_map, m_cur_texture_index,
               m_u_offset, m_v_offset, m_u_scale, m_v_scale>>

histVars == <<submitted, lastRegion, lastName, firstCalls, isEmptyRet>>

clampVars == <<clampIn, region>>

-----------------------------------------------------------------------------
(* Bounds of the model *)

MaxField == 3      \* MIN/MAX field values 0..MaxField (plus the 10-bit top)
MaxDim == 3        \* texture dimensions 1..MaxDim (plus one beyond u16)
MaxTris == 2       \* AddTri calls per run
MaxUninit == 5     \* largest value read from the uninitialized index
MaxTexDim == 2     \* texture dimensions of the SetTextureRegion calls

(* Program constants *)

FieldTop == 1023   \* GIFRegCLAMP MINU/MAXU/MINV/MAXV are 10-bit fields
U16Mod == 65536    \* TextureRegion members are u16

-----------------------------------------------------------------------------
(* Integer helpers *)

Min(a, b) == IF a < b THEN a ELSE b

Abs(a) == IF a < 0 THEN -a ELSE a

RECURSIVE BitAnd(_, _)
BitAnd(a, b) ==
    IF a = 0 \/ b = 0 THEN 0
    ELSE (a % 2) * (b % 2) + 2 * BitAnd(a \div 2, b \div 2)

ToU16(n) == n % U16Mod

-----------------------------------------------------------------------------
(* float arithmetic, exact *)

RECURSIVE GCD(_, _)
GCD(a, b) == IF b = 0 THEN a ELSE GCD(b, a % b)

Rat(n, d) ==
    LET g == GCD(Abs(n), Abs(d))
        s == IF d < 0 THEN -1 ELSE 1
    IN  <<(s * n) \div g, (s * d) \div g>>

RatOfInt(n) == <<n, 1>>

RatNeg(a) == <<-a[1], a[2]>>

RatAdd(a, b) == Rat(a[1] * b[2] + b[1] * a[2], a[2] * b[2])

RatSub(a, b) == RatAdd(a, RatNeg(b))

RatMul(a, b) == Rat(a[1] * b[1], a[2] * b[2])

RatDiv(a, b) == Rat(a[1] * b[2], a[2] * b[1])

-----------------------------------------------------------------------------
(* GetTextureRegionForCLAMP *)

WrapModes == {"CLAMP_REPEAT", "CLAMP_CLAMP", "CLAMP_REGION_CLAMP",
              "CLAMP_REGION_REPEAT"}

\* The repeat rectangle test: MSK = 0b00011111 and FIX = 0bXXX00000
MaskFixOk_NoFixTest(MSK, FIX) == BitAnd(MSK + 1, MSK) = 0

MaskFixOk(MSK, FIX) ==
    /\ BitAnd(MSK + 1, MSK) = 0
    /\ BitAnd(FIX, MSK) = 0

\* One iteration of the loop body, before the final clamp: <<min, max>>
AxisRaw_MaskAsOffset(WM, MIN, MAX, dim) ==
    IF WM = "CLAMP_REGION_CLAMP" THEN <<MIN, MAX>>
    ELSE IF WM = "CLAMP_REGION_REPEAT" THEN
        IF MaskFixOk(MIN, MAX) THEN <<MIN, MIN + MAX>>
        ELSE <<0, dim - 1>>
    ELSE <<0, dim - 1>>

AxisRaw(WM, MIN, MAX, dim) ==
    IF WM = "CLAMP_REGION_CLAMP" THEN <<MIN, MAX>>
    ELSE IF WM = "CLAMP_REGION_REPEAT" THEN
        IF MaskFixOk(MIN, MAX) THEN <<MAX, MAX + MIN>>
        ELSE <<0, dim - 1>>
    ELSE <<0, dim - 1>>

\* max = std::min(max, dim - 1); min = std::min(min, max)
AxisClamp_NoMinClamp(raw, dim) ==
    LET max == Min(raw[2], dim - 1) IN <<raw[1], max>>

AxisClamp(raw, dim) ==
    LET max == Min(raw[2], dim - 1)
        min == Min(raw[1], max)
    IN  <<min, max>>

\* The u32 pair is stored into the u16 members of TextureRegion
AxisRegion(WM, MIN, MAX, dim) ==
    LET c == AxisClamp(AxisRaw(WM, MIN, MAX, dim), dim)
    IN  <<ToU16(c[1]), ToU16(c[2])>>

GetTextureRegionForCLAMP_WidthTwice(CLAMP, twidth, theight) ==
    LET u == AxisRegion(CLAMP.WMS, CLAMP.MINU, CLAMP.MAXU, twidth)
        v == AxisRegion(CLAMP.WMT, CLAMP.MINV, CLAMP.MAXV, twidth)
    IN  [u_min |-> u[1], u_max |-> u[2], v_min |-> v[1], v_max |-> v[2]]

GetTextureRegionForCLAMP(CLAMP, twidth, theight) ==
    LET u == AxisRegion(CLAMP.WMS, CLAMP.MINU, CLAMP.MAXU, twidth)
        v == AxisRegion(CLAMP.WMT, CLAMP.MINV, CLAMP.MAXV, theight)
    IN  [u_min |-> u[1], u_max |-> u[2], v_min |-> v[1], v_max |-> v[2]]

-----------------------------------------------------------------------------
(* Inputs of GetTextureRegionForCLAMP *)

FieldVals == (0..MaxField) \cup {FieldTop}

\* twidth/theight: small textures, and one wider than a u16 can count
DimVals == (1..MaxDim) \cup {U16Mod + 1}

ClampInputs ==
    [WMS : WrapModes, MINU : FieldVals, MAXU : FieldVals, twidth : DimVals,
     WMT : WrapModes, MINV : FieldVals, MAXV : FieldVals, theight : DimVals]

-----------------------------------------------------------------------------
(* The batch: data *)

Names == {"tex0", "tex1"}

\* A vertex: x stands for the position (x, y, z, q), c for the colour
\* (r, g, b, a), u and v are floats.
Vert(x, c, u, v) == [x |-> x, c |-> c, u |-> u, v |-> v]

Zero == RatOfInt(0)
One == RatOfInt(1)

EmptyMap == [n \in {} |-> 0]

\* An uninitialized u32 holds any value: one that a later SetTextureName
\* makes a valid index, and one that never is.
UninitValues == {0, MaxUninit}

NoRegionCall ==
    [set |-> FALSE,
     region |-> [u_min |-> 0, u_max |-> 0, v_min |-> 0, v_max |-> 0],
     twidth |-> 1, theight |-> 1]

InitBatch ==
    /\ m_tris = <<>>
    /\ m_textures = <<>>
    /\ m_texture_map = EmptyMap
    /\ m_cur_texture_index \in UninitValues
    /\ m_u_offset = Zero
    /\ m_v_offset = Zero
    /\ m_u_scale = One
    /\ m_v_scale = One
    /\ fs = [p \in {} |-> <<>>]
    /\ pc = "run"
    /\ dumpLog = <<>>
    /\ submitted = <<>>
    /\ lastRegion = NoRegionCall
    /\ lastName = ""
    /\ firstCalls = <<>>
    /\ isEmptyRet = <<>>

-----------------------------------------------------------------------------
\* The caller accumulates the whole batch before it dumps it, and a faulted
\* process runs no more.
Accumulating == pc = "run" /\ dumpLog = <<>>

(* IsEmpty *)

IsEmpty_SizeOne == Len(m_tris) <= 1

IsEmpty == m_tris = <<>>

IsEmptyCall ==
    /\ Accumulating
    /\ isEmptyRet' = <<IsEmpty>>
    /\ UNCHANGED <<batchVars, fs, pc, dumpLog, submitted, lastRegion,
                   lastName, firstCalls, clampVars>>

(* SetTextureName *)

\* The names in a sequence
Range(seq) == {seq[i] : i \in 1..Len(seq)}

\* m_texture_map.insert(...).second: no element with this key was there
Inserted_Always(new_name) == TRUE

Inserted(new_name) == new_name \notin DOMAIN m_texture_map

SetTextureName(new_name) ==
    LET next_texture_index == Len(m_textures)
        inserted == Inserted(new_name)
        map == IF inserted
               THEN m_texture_map @@ (new_name :> next_texture_index)
               ELSE m_texture_map
    IN  /\ Accumulating
        /\ m_texture_map' = map
        /\ m_textures' = IF inserted THEN Append(m_textures, new_name)
                         ELSE m_textures
        /\ m_cur_texture_index' = map[new_name]
        /\ lastName' = new_name
        /\ firstCalls' = IF new_name \in Range(firstCalls) THEN firstCalls
                         ELSE Append(firstCalls, new_name)
        /\ UNCHANGED <<m_tris, m_u_offset, m_v_offset, m_u_scale, m_v_scale,
                       fs, pc, dumpLog, submitted, lastRegion, isEmptyRet,
                       clampVars>>

(* SetTextureRegion *)

AxisOffset_InTexels(min, dim) == RatNeg(RatOfInt(min))

AxisOffset(min, dim) == RatNeg(RatDiv(RatOfInt(min), RatOfInt(dim)))

AxisScale(min, max, dim) == RatDiv(RatOfInt(dim), RatOfInt(max - min + 1))

SetTextureRegion(r, twidth, theight) ==
    /\ Accumulating
    /\ m_u_offset' = AxisOffset(r.u_min, twidth)
    /\ m_v_offset' = AxisOffset(r.v_min, theight)
    /\ m_u_scale' = AxisScale(r.u_min, r.u_max, twidth)
    /\ m_v_scale' = AxisScale(r.v_min, r.v_max, theight)
    /\ lastRegion' = [set |-> TRUE, region |-> r, twidth |-> twidth,
                      theight |-> theight]
    /\ UNCHANGED <<m_tris, m_textures, m_texture_map, m_cur_texture_index,
                   fs, pc, dumpLog, submitted, lastName, firstCalls,
                   isEmptyRet, clampVars>>

(* AddTri *)

RemapVert(vt) ==
    [vt EXCEPT !.u = RatMul(RatAdd(vt.u, m_u_offset), m_u_scale),
               !.v = RatMul(RatAdd(vt.v, m_v_offset), m_v_scale)]

Stamp_Always(tri) ==
    [tri EXCEPT !.texture_index = m_cur_texture_index,
                !.verts = [i \in 1..3 |-> RemapVert(tri.verts[i])]]

Stamp(tri) ==
    IF tri.texture_enabled
    THEN [tri EXCEPT !.texture_index = m_cur_texture_index,
                     !.verts = [i \in 1..3 |-> RemapVert(tri.verts[i])]]
    ELSE tri

AddTri_Restamp(tri) ==
    /\ Accumulating
    /\ m_tris' = Append([i \in DOMAIN m_tris |-> Stamp(m_tris[i])], Stamp(tri))
    /\ submitted' = Append(submitted,
                           [tri |-> tri, call |-> lastRegion, name |-> lastName])
    /\ UNCHANGED <<m_textures, m_texture_map, m_cur_texture_index,
                   m_u_offset, m_v_offset, m_u_scale, m_v_scale,
                   fs, pc, dumpLog, lastRegion, lastName, firstCalls,
                   isEmptyRet, clampVars>>

AddTri(tri) ==
    /\ Accumulating
    /\ m_tris' = Append(m_tris, Stamp(tri))
    /\ submitted' = Append(submitted,
                           [tri |-> tri, call |-> lastRegion, name |-> lastName])
    /\ UNCHANGED <<m_textures, m_texture_map, m_cur_texture_index,
                   m_u_offset, m_v_offset, m_u_scale, m_v_scale,
                   fs, pc, dumpLog, lastRegion, lastName, firstCalls,
                   isEmptyRet, clampVars>>

-----------------------------------------------------------------------------
(* DumpOBJ / DumpMTL: the text written, one record per line.  k is the     *)
(* directive, s its text argument, n its numeric arguments.                *)

Line(k, s, n) == [k |-> k, s |-> s, n |-> n]

\* {:.3f} of c / 255.0f, in thousandths
Fmt3(c) == (2000 * c + 255) \div 510

VLine(vt) == Line("v", "", <<vt.x, Fmt3(vt.c)>>)

\* "vt {} {}" of u and 1.0f - v
VtLine(vt) == Line("vt", "", vt.u \o RatSub(One, vt.v))

GroupNeeded_Always(i) == TRUE

GroupNeeded(i) == i = 1 \/ m_tris[i - 1].culled # m_tris[i].culled

MaterialNeeded_IndexOnly(i) ==
    \/ i = 1
    \/ m_tris[i - 1].texture_index # m_tris[i].texture_index

MaterialNeeded(i) ==
    \/ i = 1
    \/ m_tris[i - 1].texture_enabled # m_tris[i].texture_enabled
    \/ m_tris[i - 1].texture_index # m_tris[i].texture_index

\* m_textures[tri.texture_index] with the index past the end of the vector
OutOfRange(i) ==
    /\ m_tris[i].texture_enabled
    /\ m_tris[i].texture_index >= Len(m_textures)

\* What an out-of-range read may print, when it does not fault
GarbageNames == {"?0", "?1"}

MaterialName_FirstTexture(i, garbage) ==
    IF ~m_tris[i].texture_enabled THEN "NoTexture"
    ELSE IF m_textures = <<>> THEN garbage
    ELSE m_textures[1]

MaterialName(i, garbage) ==
    IF ~m_tris[i].texture_enabled THEN "NoTexture"
    ELSE IF OutOfRange(i) THEN garbage
    ELSE m_textures[m_tris[i].texture_index + 1]

FaceLine_InOrder == Line("f", "", <<-3, -3, -2, -2, -1, -1>>)

FaceLine == Line("f", "", <<-3, -3, -1, -1, -2, -2>>)

\* The lines of triangle i up to, not including, its usemtl line
TriHead_Interleaved(i) ==
    <<VLine(m_tris[i].verts[1]), VtLine(m_tris[i].verts[1]),
      VLine(m_tris[i].verts[2]), VtLine(m_tris[i].verts[2]),
      VLine(m_tris[i].verts[3]), VtLine(m_tris[i].verts[3])>>
    \o (IF GroupNeeded(i)
        THEN <<Line("g", IF m_tris[i].culled THEN "Culled" ELSE "Normal", <<>>)>>
        ELSE <<>>)

TriHead(i) ==
    [j \in 1..3 |-> VLine(m_tris[i].verts[j])]
    \o [j \in 1..3 |-> VtLine(m_tris[i].verts[j])]
    \o (IF GroupNeeded(i)
        THEN <<Line("g", IF m_tris[i].culled THEN "Culled" ELSE "Normal", <<>>)>>
        ELSE <<>>)

TriBlock(i, garbage) ==
    TriHead(i)
    \o (IF MaterialNeeded(i)
        THEN <<Line("usemtl", MaterialName(i, garbage), <<>>)>>
        ELSE <<>>)
    \o <<FaceLine>>

RECURSIVE TriBlocks(_, _)
TriBlocks(n, garbage) ==
    IF n = 0 THEN <<>> ELSE TriBlocks(n - 1, garbage) \o TriBlock(n, garbage)

ObjHeader(filename) ==
    <<Line("#", "PCSX2 3D Screenshot", <<>>), Line("mtllib", filename, <<>>)>>

ObjLines(filename, garbage) ==
    ObjHeader(filename) \o TriBlocks(Len(m_tris), garbage)

RECURSIVE MtlTextures(_)
MtlTextures(n) ==
    IF n = 0 THEN <<>>
    ELSE MtlTextures(n - 1)
         \o <<Line("newmtl", m_textures[n], <<>>),
              Line("map_Kd", m_textures[n], <<>>)>>

MtlLines_UsedOnly ==
    <<Line("newmtl", "NoTexture", <<>>), Line("Kd", "", <<1, 1, 1>>)>>
    \o SelectSeq(MtlTextures(Len(m_textures)),
                 LAMBDA l : \E i \in 1..Len(m_tris) :
                     m_tris[i].texture_enabled /\ MaterialName(i, "") = l.s)

MtlLines ==
    <<Line("newmtl", "NoTexture", <<>>), Line("Kd", "", <<1, 1, 1>>)>>
    \o MtlTextures(Len(m_textures))

\* The triangles whose usemtl line reads m_textures out of range
Faults == {i \in 1..Len(m_tris) : MaterialNeeded(i) /\ OutOfRange(i)}

FirstFault == CHOOSE i \in Faults : \A j \in Faults : i <= j

ObjPath(filename) == <<filename, "obj">>
MtlPath(filename) == <<filename, "mtl">>

Write(files, path, lines) == (path :> lines) @@ files

-----------------------------------------------------------------------------
(* DumpToFile: DumpOBJ(filename) && DumpMTL(filename) *)

Filenames == {"shot"}

DumpResult_Or(objOk, mtlOk) == objOk \/ mtlOk

DumpResult(objOk, mtlOk) == objOk /\ mtlOk

\* What DumpOBJ or DumpMTL does with its std::FILE*: nothing when
\* OpenCFile returns null, else the prints and the fclose
FileEvents_NoClose(path, openable) ==
    IF openable THEN <<<<"open", path>>, <<"write", path>>>> ELSE <<>>

FileEvents(path, openable) ==
    IF openable
    THEN <<<<"open", path>>, <<"write", path>>, <<"close", path>>>>
    ELSE <<>>

\* DumpOBJ(filename) && DumpMTL(filename), left to right
DumpEvents(filename, objOpenable, mtlOpenable) ==
    FileEvents(ObjPath(filename), objOpenable)
    \o (IF objOpenable THEN FileEvents(MtlPath(filename), mtlOpenable)
        ELSE <<>>)

\* mtlOpened: DumpMTL is called only when DumpOBJ returned true
FilesAfter(filename, objOpened, mtlOpened, obj) ==
    IF ~objOpened THEN fs
    ELSE IF ~mtlOpened THEN Write(fs, ObjPath(filename), obj)
    ELSE Write(Write(fs, ObjPath(filename), obj), MtlPath(filename), MtlLines)

\* objOpenable, mtlOpenable: whether FileSystem::OpenCFile(path, "wb")
\* succeeds on the .obj and on the .mtl path
DumpToFile(filename, objOpenable, mtlOpenable, garbage) ==
    LET obj == ObjLines(filename, garbage)
        mtlOpened == objOpenable /\ mtlOpenable
    IN  /\ pc = "run"
        /\ fs' = FilesAfter(filename, objOpenable, mtlOpened, obj)
        /\ dumpLog' = <<[filename |-> filename,
                         objOpenable |-> objOpenable,
                         mtlOpenable |-> mtlOpenable,
                         handles |-> DumpEvents(filename, objOpenable,
                                                mtlOpenable),
                         result |-> DumpResult(objOpenable, mtlOpenable)]>>
        /\ UNCHANGED <<batchVars, pc, histVars, clampVars>>

\* The out-of-range read faults: DumpOBJ never returns, and the .obj file
\* keeps the output so far if the stream had been flushed, nothing if not.
DumpFault(filename, flushed) ==
    LET written == ObjHeader(filename) \o TriBlocks(FirstFault - 1, "")
                   \o TriHead(FirstFault)
    IN  /\ pc = "run"
        /\ Faults # {}
        /\ fs' = Write(fs, ObjPath(filename),
                       IF flushed THEN written ELSE <<>>)
        /\ pc' = "crashed"
        /\ UNCHANGED <<batchVars, dumpLog, histVars, clampVars>>

-----------------------------------------------------------------------------
(* Inputs of the batch operations *)

RegionCall(r, twidth, theight) ==
    [set |-> TRUE, region |-> r, twidth |-> twidth, theight |-> theight]

UnitVerts ==
    <<Vert(1, 0, Zero, Zero), Vert(2, 128, One, Zero), Vert(3, 255, Zero, One)>>

Tri(verts, culled, texture_enabled, texture_index) ==
    [verts |-> verts, culled |-> culled, texture_enabled |-> texture_enabled,
     texture_index |-> texture_index]

\* Untextured triangles carry either index; a textured one carries an index
\* that AddTri is to overwrite.
TriInputs ==
    {Tri(UnitVerts, FALSE, FALSE, 0), Tri(UnitVerts, TRUE, FALSE, 0),
     Tri(UnitVerts, FALSE, FALSE, 1),
     Tri(UnitVerts, FALSE, TRUE, 1), Tri(UnitVerts, TRUE, TRUE, 1)}

\* Inputs that exercise the UV remap: every region the resolver returns for
\* a region-clamp register on textures up to MaxTexDim, and vertices on the
\* texel grid in texel units and in units of the texture size.  Once the
\* triangle is stored, the region is one texel of a 2x2 texture.
TexDims == 1..MaxTexDim

RegionClamps ==
    [WMS : {"CLAMP_REGION_CLAMP"}, MINU : 0..MaxTexDim, MAXU : 0..MaxTexDim,
     WMT : {"CLAMP_REGION_CLAMP"}, MINV : 0..MaxTexDim, MAXV : 0..MaxTexDim]

UVRegionCalls ==
    {RegionCall(GetTextureRegionForCLAMP(c, w, h), w, h) :
        c \in RegionClamps, w \in TexDims, h \in TexDims}

LateRegionCalls ==
    {RegionCall([u_min |-> 1, u_max |-> 1, v_min |-> 0, v_max |-> 0], 2, 2)}

UVals == {Rat(n, d) : n \in 0..MaxTexDim, d \in TexDims}

UVTriInputs ==
    {Tri(<<Vert(1, 0, a, b), Vert(2, 128, b, a), Vert(3, 255, a, a)>>,
         FALSE, e, 0) : a \in UVals, b \in UVals, e \in BOOLEAN}

-----------------------------------------------------------------------------
(* Naming textures, adding triangles, dumping.  The caller accumulates     *)
(* first and dumps afterwards.                                             *)

Init ==
    /\ InitBatch
    /\ clampIn = CHOOSE c \in ClampInputs : TRUE
    /\ region = <<>>

SetTextureNameCall == \E name \in Names : SetTextureName(name)

AddTriCall == \E tri \in TriInputs : Len(m_tris) < MaxTris /\ AddTri(tri)

DumpToFileCall ==
    \E filename \in Filenames, objOpenable \in BOOLEAN, mtlOpenable \in BOOLEAN :
        \E garbage \in (IF Faults = {} THEN {""} ELSE GarbageNames) :
            DumpToFile(filename, objOpenable, mtlOpenable, garbage)

DumpFaultCall ==
    \E filename \in Filenames, flushed \in BOOLEAN :
        DumpFault(filename, flushed)

Next ==
    \/ SetTextureNameCall
    \/ AddTriCall
    \/ DumpToFileCall
    \/ DumpFaultCall

Spec == Init /\ [][Next]_vars

-----------------------------------------------------------------------------
(* Setting regions, adding a triangle *)

UVSetTextureRegionCall ==
    \E c \in (IF m_tris = <<>> THEN UVRegionCalls ELSE LateRegionCalls) :
        SetTextureRegion(c.region, c.twidth, c.theight)

UVAddTriCall == \E tri \in UVTriInputs : m_tris = <<>> /\ AddTri(tri)

NextUV ==
    \/ UVSetTextureRegionCall
    \/ UVAddTriCall

SpecUV == Init /\ [][NextUV]_vars

-----------------------------------------------------------------------------
(* Accumulation alone: naming textures, setting regions, adding triangles, *)
(* asking IsEmpty in between                                               *)

\* The region set is one texel of a 2x2 texture
SetTextureRegionCall ==
    \E c \in LateRegionCalls : SetTextureRegion(c.region, c.twidth, c.theight)

NextAccum ==
    \/ SetTextureNameCall
    \/ SetTextureRegionCall
    \/ AddTriCall
    \/ IsEmptyCall

SpecAccum == Init /\ [][NextAccum]_vars

-----------------------------------------------------------------------------
(* The wrap-region resolver *)

InitClamp ==
    /\ InitBatch
    /\ m_cur_texture_index = 0
    /\ clampIn \in ClampInputs
    /\ region = <<>>

Resolve ==
    /\ region = <<>>
    /\ region' = <<GetTextureRegionForCLAMP(clampIn, clampIn.twidth,
                                            clampIn.theight)>>
    /\ UNCHANGED <<batchVars, fs, pc, dumpLog, histVars, clampIn>>

NextClamp == Resolve

SpecClamp == InitClamp /\ [][NextClamp]_vars

-----------------------------------------------------------------------------
(* Claims about GetTextureRegionForCLAMP, under SpecClamp *)

IsPowerOfTwo(n) == \E k \in 0..10 : n = 2 ^ k

Resolved == region # <<>>

\* The inputs and the returned bounds of each axis: <<WM, MIN, MAX, dim, min, max>>
AxisU == <<clampIn.WMS, clampIn.MINU, clampIn.MAXU, clampIn.twidth,
           region[1].u_min, region[1].u_max>>
AxisV == <<clampIn.WMT, clampIn.MINV, clampIn.MAXV, clampIn.theight,
           region[1].v_min, region[1].v_max>>

RepeatRectangle(a) ==
    /\ a[1] = "CLAMP_REGION_REPEAT"
    /\ IsPowerOfTwo(a[2] + 1)
    /\ BitAnd(a[3], a[2]) = 0

RepeatWeird(a) ==
    /\ a[1] = "CLAMP_REGION_REPEAT"
    /\ ~(IsPowerOfTwo(a[2] + 1) /\ BitAnd(a[3], a[2]) = 0)

C2_Axis(a) ==
    RepeatRectangle(a) =>
        /\ a[6] = Min(a[3] + a[2], a[4] - 1)
        /\ a[5] = Min(a[3], a[6])

\* C2: in region-repeat mode with MSK+1 a power of two and FIX & MSK = 0, the
\* axis bounds returned are max = min(FIX+MSK, dim-1) and min = min(FIX, max).
C2_RepeatRegionExact == Resolved => C2_Axis(AxisU) /\ C2_Axis(AxisV)

\* A repeat rectangle with a nonzero offset that the texture edge cuts
C2_Witness ==
    /\ Resolved
    /\ RepeatRectangle(AxisU)
    /\ clampIn.MINU > 0 /\ clampIn.MAXU > 0
    /\ clampIn.MAXU + clampIn.MINU > clampIn.twidth - 1
    /\ region[1].u_max = clampIn.twidth - 1

C3_Axis(a) == RepeatWeird(a) => a[5] = 0 /\ a[6] = a[4] - 1

C3_AxisU16(a) == (RepeatWeird(a) /\ a[4] <= U16Mod) => a[5] = 0 /\ a[6] = a[4] - 1

C4_Axis(a) ==
    a[1] = "CLAMP_REGION_CLAMP" =>
        /\ a[6] = Min(a[3], a[4] - 1)
        /\ a[5] = Min(a[2], a[6])
        /\ 0 <= a[5] /\ a[5] <= a[6] /\ a[6] <= a[4] - 1

\* C4: in region-clamp mode the axis bounds returned are max = min(MAX, dim-1)
\* and min = min(MIN, max), so 0 <= min <= max <= dim-1.
C4_ClampRegionInBounds == Resolved => C4_Axis(AxisU) /\ C4_Axis(AxisV)

\* MIN > MAX and MAX >= dim on the same axis
C4_Witness ==
    /\ Resolved
    /\ clampIn.WMT = "CLAMP_REGION_CLAMP"
    /\ clampIn.MINV > clampIn.MAXV
    /\ clampIn.MAXV >= clampIn.theight

-----------------------------------------------------------------------------
(* Claims about the accumulator *)

Tris == 1..Len(m_tris)

\* C1: every texture-enabled triangle stored has a texture index below the
\* size of the texture table, also when it was added before the first
\* SetTextureName.
C1_TextureIndexValid ==
    \A i \in Tris :
        m_tris[i].texture_enabled => m_tris[i].texture_index < Len(m_textures)

\* The texel corner (u, v) of a region call, as floats
TexelCorner(u, v) == <<RatOfInt(u), RatOfInt(v)>>

\* The same corner in units of the texture's width and height
NormalizedCorner(c, u, v) ==
    <<RatDiv(RatOfInt(u), RatOfInt(c.twidth)),
      RatDiv(RatOfInt(v), RatOfInt(c.theight))>>

RegionInTexture(c) ==
    /\ c.set
    /\ c.region.u_min <= c.region.u_max /\ c.region.u_max < c.twidth
    /\ c.region.v_min <= c.region.v_max /\ c.region.v_max < c.theight

UV(vt) == <<vt.u, vt.v>>

\* Triangle i was submitted texture-enabled after a SetTextureRegion call
RemappedTri(i) ==
    /\ submitted[i].tri.texture_enabled
    /\ RegionInTexture(submitted[i].call)

\* C5 as stated: a vertex submitted at the texel (u_min, v_min) is stored as
\* (0, 0), and one submitted at the texel (u_max+1, v_max+1) as (1, 1).
C5_Original ==
    \A i \in Tris : RemappedTri(i) =>
        LET r == submitted[i].call.region IN
        \A j \in 1..3 :
            /\ UV(submitted[i].tri.verts[j]) = TexelCorner(r.u_min, r.v_min)
                   => UV(m_tris[i].verts[j]) = <<Zero, Zero>>
            /\ UV(submitted[i].tri.verts[j])
                       = TexelCorner(r.u_max + 1, r.v_max + 1)
                   => UV(m_tris[i].verts[j]) = <<One, One>>

\* C5, amended: a vertex submitted at (u_min / W, v_min / H) is stored as
\* (0, 0), and one submitted at ((u_max+1) / W, (v_max+1) / H) as (1, 1).
C5_NormalizedCornersToUnitSquare ==
    \A i \in Tris : RemappedTri(i) =>
        LET c == submitted[i].call
            r == c.region
        IN  \A j \in 1..3 :
            /\ UV(submitted[i].tri.verts[j])
                       = NormalizedCorner(c, r.u_min, r.v_min)
                   => UV(m_tris[i].verts[j]) = <<Zero, Zero>>
            /\ UV(submitted[i].tri.verts[j])
                       = NormalizedCorner(c, r.u_max + 1, r.v_max + 1)
                   => UV(m_tris[i].verts[j]) = <<One, One>>

\* A region away from the texture's origin, a vertex at its far corner
C5_Witness ==
    \E i \in Tris :
        /\ RemappedTri(i)
        /\ submitted[i].call.region.u_min > 0
        /\ submitted[i].call.region.v_max + 1 < submitted[i].call.theight
        /\ \E j \in 1..3 :
               /\ UV(submitted[i].tri.verts[j])
                      = NormalizedCorner(submitted[i].call,
                                         submitted[i].call.region.u_max + 1,
                                         submitted[i].call.region.v_max + 1)
               /\ UV(m_tris[i].verts[j]) = <<One, One>>

-----------------------------------------------------------------------------
(* Reading a geometry file back *)

\* The file cut after each face record: one sequence of lines per triangle
\* (the header lines fall to the first)
RECURSIVE Split(_, _, _)
Split(file, p, cur) ==
    IF p > Len(file) THEN <<>>
    ELSE IF file[p].k = "f"
         THEN <<Append(cur, file[p])>> \o Split(file, p + 1, <<>>)
         ELSE Split(file, p + 1, Append(cur, file[p]))

Blocks(file) == Split(file, 1, <<>>)

\* The lines of directive k among some lines, in their order
Kind(lines, k) == SelectSeq(lines, LAMBDA l : l.k = k)

\* One label <<i, m>> per line of directive k in the first n blocks, in file
\* order: the m-th such line of triangle i
RECURSIVE Labels(_, _, _)
Labels(blocks, k, n) ==
    IF n = 0 THEN <<>>
    ELSE Labels(blocks, k, n - 1)
         \o [m \in 1..Len(Kind(blocks[n], k)) |-> <<n, m>>]

\* The line a relative index r < 0 in the face record of triangle i refers
\* to: the (-r)-th last line of directive k written so far
Referred(blocks, k, i, r) ==
    LET above == Labels(blocks, k, i)
    IN  IF r < 0 /\ Len(above) + 1 + r >= 1 THEN above[Len(above) + 1 + r]
        ELSE <<0, 0>>

\* The geometry files a DumpOBJ has opened, written and closed
GeometryFiles ==
    IF pc = "run"
    THEN {fs[ObjPath(f)] : f \in {g \in Filenames : ObjPath(g) \in DOMAIN fs}}
    ELSE {}

WholeBatch(file) == Len(Blocks(file)) = Len(m_tris)

-----------------------------------------------------------------------------
(* Claims about the geometry file, under Spec *)

\* C6: a 'g' line is written for triangle i iff i is the first triangle or
\* its culled flag differs from that of triangle i-1, and it reads 'Culled'
\* for a culled triangle, 'Normal' otherwise.
C6_GroupAtCulledTransitions ==
    \A file \in GeometryFiles :
        /\ WholeBatch(file)
        /\ \A i \in Tris :
            LET g == Kind(Blocks(file)[i], "g") IN
            /\ Len(g) <= 1
            /\ g # <<>> <=> (i = 1 \/ m_tris[i].culled # m_tris[i - 1].culled)
            /\ \A p \in 1..Len(g) :
                   g[p].s = IF m_tris[i].culled THEN "Culled" ELSE "Normal"

\* Two culled triangles in a row, written to a file
C6_Witness ==
    /\ GeometryFiles # {}
    /\ \E i \in Tris : i > 1 /\ m_tris[i].culled /\ m_tris[i - 1].culled

\* C7: a 'usemtl' line is written for triangle i iff i is the first triangle
\* or its stored (texture_enabled, texture_index) pair differs from that of
\* triangle i-1.
C7_MaterialAtTextureTransitions ==
    \A file \in GeometryFiles :
        /\ WholeBatch(file)
        /\ \A i \in Tris :
            LET m == Kind(Blocks(file)[i], "usemtl") IN
            /\ Len(m) <= 1
            /\ m # <<>> <=>
                   (i = 1 \/ <<m_tris[i].texture_enabled, m_tris[i].texture_index>>
                             # <<m_tris[i - 1].texture_enabled,
                                 m_tris[i - 1].texture_index>>)

\* An untextured triangle next to a textured one with the same index
C7_Witness ==
    /\ GeometryFiles # {}
    /\ \E i \in Tris :
           /\ i > 1
           /\ m_tris[i].texture_enabled # m_tris[i - 1].texture_enabled
           /\ m_tris[i].texture_index = m_tris[i - 1].texture_index

\* The face record of triangle i refers to its own 'v' and 'vt' lines, the
\* order[1]-th, order[2]-th and order[3]-th, each 'v' with the 'vt' of the
\* same position
FaceOrder(file, i, order) ==
    LET blocks == Blocks(file)
        n == blocks[i][Len(blocks[i])].n
    IN  /\ Len(n) = 6
        /\ \A m \in 1..3 :
            /\ Referred(blocks, "v", i, n[2 * m - 1]) = <<i, order[m]>>
            /\ Referred(blocks, "vt", i, n[2 * m]) = <<i, order[m]>>

\* Triangle i's 'v' and 'vt' lines are those of its vertices, in their order
OwnVerts(file, i) ==
    /\ Kind(Blocks(file)[i], "v") = [m \in 1..3 |-> VLine(m_tris[i].verts[m])]
    /\ Kind(Blocks(file)[i], "vt") = [m \in 1..3 |-> VtLine(m_tris[i].verts[m])]

\* C8 as stated: each face record refers to the vertex/texcoord pairs of its
\* own triangle in the order third, first, second of their emission.
C8_Original ==
    \A file \in GeometryFiles :
        WholeBatch(file) /\ \A i \in Tris : FaceOrder(file, i, <<3, 1, 2>>)

\* C8, amended: each face record refers to the vertex/texcoord pairs of its
\* own triangle in the order first, third, second of their emission, each
\* vertex paired with the texcoord of the same position.
C8_FaceFirstThirdSecond ==
    \A file \in GeometryFiles :
        /\ WholeBatch(file)
        /\ \A i \in Tris : OwnVerts(file, i) /\ FaceOrder(file, i, <<1, 3, 2>>)

\* A file of two triangles: the second face has six lines of each kind above
C8_Witness ==
    \E file \in GeometryFiles :
        /\ Len(m_tris) >= 2
        /\ Len(Kind(file, "v")) >= 6

-----------------------------------------------------------------------------
(* Claims about DumpToFile, under Spec *)

\* The last DumpToFile call has returned
Returned == pc = "run" /\ dumpLog # <<>>

\* The geometry file of the whole batch, whatever an out-of-range name reads
WholeGeometry(filename) ==
    {ObjLines(filename, garbage) : garbage \in GarbageNames \cup {""}}

\* C9: DumpToFile returns success iff both the .obj and the .mtl file can be
\* opened for writing, and a geometry file written before the material open
\* failed is left in place, whole.
C9_SuccessIffBothOpen ==
    Returned =>
        LET d == dumpLog[1] IN
        /\ d.result <=> (d.objOpenable /\ d.mtlOpenable)
        /\ (d.objOpenable /\ ~d.mtlOpenable) =>
               /\ ObjPath(d.filename) \in DOMAIN fs
               /\ fs[ObjPath(d.filename)] \in WholeGeometry(d.filename)

\* The geometry file written, the material file refused, nothing cleaned up
C9_Witness ==
    /\ Returned
    /\ dumpLog[1].objOpenable /\ ~dumpLog[1].mtlOpenable /\ ~dumpLog[1].result
    /\ m_tris # <<>>
    /\ ObjPath(dumpLog[1].filename) \in DOMAIN fs
    /\ MtlPath(dumpLog[1].filename) \notin DOMAIN fs

\* C10: DumpToFile leaves the batch as it is, and a second successful dump
\* right after a successful one, under the same name, writes the same
\* geometry-file and material-file contents as the first.
C10_DumpTwiceIdentical ==
    [][(/\ Returned /\ dumpLog[1].result
        /\ pc' = "run" /\ dumpLog'[1].result
        /\ dumpLog'[1].filename = dumpLog[1].filename)
       => /\ batchVars' = batchVars
          /\ fs'[ObjPath(dumpLog[1].filename)] = fs[ObjPath(dumpLog[1].filename)]
          /\ fs'[MtlPath(dumpLog[1].filename)] = fs[MtlPath(dumpLog[1].filename)]
      ]_vars

-----------------------------------------------------------------------------
(* Claims about the texture table, under Spec *)

\* The index of a name in the table: the position of its first occurrence
IndexOf(name, table) ==
    (CHOOSE i \in 1..Len(table) :
        table[i] = name /\ \A j \in 1..(i - 1) : table[j] # name) - 1

TableWellFormed ==
    /\ m_textures = firstCalls
    /\ \A i, j \in 1..Len(m_textures) :
           m_textures[i] = m_textures[j] => i = j
    /\ DOMAIN m_texture_map = Range(m_textures)
    /\ \A i \in 1..Len(m_textures) : m_texture_map[m_textures[i]] = i - 1
    /\ lastName # "" => /\ lastName \in Range(m_textures)
                        /\ m_cur_texture_index = IndexOf(lastName, firstCalls)

\* A step that calls SetTextureName with a name the table holds
RenamingStep ==
    /\ Accumulating
    /\ m_tris' = m_tris /\ dumpLog' = dumpLog /\ pc' = pc
    /\ lastName' \in Range(m_textures)

\* C11: SetTextureName with a name already in the table leaves the table
\* as it is and makes the current index the index the name got at its
\* first call; the table always holds each distinct name passed so far
\* once, in the order of the first calls, and the map takes table[i] to i.
C11_TextureTableFirstCallOrder ==
    /\ []TableWellFormed
    /\ [][RenamingStep =>
            /\ m_textures' = m_textures
            /\ m_texture_map' = m_texture_map
            /\ m_cur_texture_index' = IndexOf(lastName', m_textures)]_vars

\* Two names registered, then the first one named again
C11_Witness ==
    /\ Len(m_textures) = 2
    /\ lastName = m_textures[1]
    /\ m_cur_texture_index = 0

-----------------------------------------------------------------------------
(* Claims about accumulation, under SpecAccum *)

RemapState == <<m_u_offset, m_v_offset, m_u_scale, m_v_scale>>

\* C12: a triangle submitted with texture_enabled false is stored with its
\* (u, v) values and every other field as submitted, whatever the remap
\* state and the current texture index at its AddTri.
C12_UntexturedStoredAsSubmitted ==
    /\ Len(m_tris) = Len(submitted)
    /\ \A i \in Tris :
           ~submitted[i].tri.texture_enabled => m_tris[i] = submitted[i].tri

\* An untextured triangle added under a remap that would move its vertices
\* and a current index that differs from the one it carries
C12_Witness ==
    \E i \in Tris :
        /\ ~submitted[i].tri.texture_enabled
        /\ submitted[i].call.set
        /\ submitted[i].name # ""
        /\ RemapState # <<Zero, Zero, One, One>>
        /\ m_tris[i].texture_index # m_cur_texture_index
        /\ m_tris[i] = submitted[i].tri
        /\ Stamp_Always(submitted[i].tri) # submitted[i].tri

NamingStep ==
    <<m_textures, m_texture_map, m_cur_texture_index, lastName>>'
        # <<m_textures, m_texture_map, m_cur_texture_index, lastName>>

RegionStep == <<RemapState, lastRegion>>' # <<RemapState, lastRegion>>

AddingStep == submitted' # submitted

\* C13: SetTextureName and SetTextureRegion leave the stored triangles as
\* they are, and AddTri keeps the stored triangles, in their order, and
\* adds exactly one at the end.
C13_TrianglesAppendOnly ==
    [][/\ (NamingStep \/ RegionStep) => m_tris' = m_tris
       /\ AddingStep => /\ Len(m_tris') = Len(m_tris) + 1
                        /\ SubSeq(m_tris', 1, Len(m_tris)) = m_tris
       /\ ~AddingStep => m_tris' = m_tris]_vars

\* A textured triangle in the list, then a region and another name set,
\* then a second textured triangle: the first keeps its UVs and its index
C13_Witness ==
    /\ Len(m_tris) = 2
    /\ m_tris[1].texture_enabled /\ m_tris[2].texture_enabled
    /\ ~submitted[1].call.set /\ submitted[2].call.set
    /\ submitted[1].name # "" /\ submitted[2].name # submitted[1].name
    /\ m_tris[1].verts = submitted[1].tri.verts
    /\ m_tris[2].verts # m_tris[1].verts
    /\ m_tris[2].texture_index # m_tris[1].texture_index

\* C15: IsEmpty returns true as long as no AddTri has been called, whatever
\* names and regions have been set, and false once one has; a call changes
\* nothing of the batch or the files.
C15_IsEmptyIffNoAddTri ==
    /\ [](IsEmpty <=> submitted = <<>>)
    /\ [][isEmptyRet' # isEmptyRet =>
            /\ isEmptyRet' = <<submitted = <<>>>>
            /\ batchVars' = batchVars
            /\ <<fs, pc>>' = <<fs, pc>>]_vars

\* IsEmpty has answered false after an untextured triangle was added, with
\* a name and a region set
C15_Witness ==
    /\ isEmptyRet = <<FALSE>>
    /\ Len(m_tris) = 1 /\ ~m_tris[1].texture_enabled
    /\ lastName # "" /\ lastRegion.set

-----------------------------------------------------------------------------
(* Claims about the material file, under Spec *)

\* The material files a DumpMTL has opened, written and closed
MaterialFiles ==
    IF pc = "run"
    THEN {fs[MtlPath(f)] : f \in {g \in Filenames : MtlPath(g) \in DOMAIN fs}}
    ELSE {}

\* C14: the material file holds the default material 'NoTexture' with
\* 'Kd 1 1 1', then one 'newmtl' / 'map_Kd' pair for each distinct name
\* passed to SetTextureName, in the order of the first calls, whether or not
\* a triangle uses the name.
C14_MaterialPerNameInFirstCallOrder ==
    \A file \in MaterialFiles :
        /\ Len(file) = 2 + 2 * Len(firstCalls)
        /\ file[1] = Line("newmtl", "NoTexture", <<>>)
        /\ file[2] = Line("Kd", "", <<1, 1, 1>>)
        /\ \A i \in 1..Len(firstCalls) :
               /\ file[2 * i + 1] = Line("newmtl", firstCalls[i], <<>>)
               /\ file[2 * i + 2] = Line("map_Kd", firstCalls[i], <<>>)
        /\ \A i, j \in 1..Len(firstCalls) :
               firstCalls[i] = firstCalls[j] => i = j

\* Two names, the first named again, one of them used by a triangle and the
\* other by none
C14_Witness ==
    /\ MaterialFiles # {}
    /\ Len(firstCalls) = 2
    /\ lastName = firstCalls[1]
    /\ \E i \in Tris : m_tris[i].texture_enabled /\ m_tris[i].texture_index = 0
    /\ \A i \in Tris : m_tris[i].texture_index # 1

-----------------------------------------------------------------------------
(* Claims about the material of a face, under Spec *)

\* The material in effect for the face of triangle i: the name on the last
\* 'usemtl' line above its face record, if there is one
RECURSIVE MaterialInEffect(_, _)
MaterialInEffect(blocks, i) ==
    IF i = 0 THEN <<>>
    ELSE LET m == Kind(blocks[i], "usemtl") IN
         IF m # <<>> THEN <<m[Len(m)].s>>
         ELSE MaterialInEffect(blocks, i - 1)

\* C16: the material in effect for the face of a textured triangle added
\* after some SetTextureName call is the name of the last such call before
\* its AddTri, whatever texture index the caller had put in the triangle;
\* for an untextured triangle it is 'NoTexture'.
C16_FaceMaterialIsLastNameSet ==
    \A file \in GeometryFiles :
        /\ WholeBatch(file)
        /\ \A i \in Tris :
            LET sub == submitted[i]
                mat == MaterialInEffect(Blocks(file), i)
            IN  /\ (sub.tri.texture_enabled /\ sub.name # "")
                       => mat = <<sub.name>>
                /\ ~sub.tri.texture_enabled => mat = <<"NoTexture">>

\* Two textured triangles under the same name, of two registered: the
\* second face has no 'usemtl' line of its own, and the caller's index
\* was another
C16_Witness ==
    \E file \in GeometryFiles :
        /\ Len(m_tris) = 2 /\ WholeBatch(file)
        /\ submitted[1].tri.texture_enabled /\ submitted[2].tri.texture_enabled
        /\ submitted[2].name = submitted[1].name
        /\ Len(m_textures) = 2 /\ submitted[2].name = m_textures[1]
        /\ submitted[2].tri.texture_index # m_tris[2].texture_index
        /\ Kind(Blocks(file)[2], "usemtl") = <<>>
        /\ MaterialInEffect(Blocks(file), 2) = <<submitted[2].name>>

-----------------------------------------------------------------------------
(* Claims about the file handles of DumpToFile, under Spec *)

\* The paths whose handle is open after the first p events of h
OpenAfter(h, p) ==
    {path \in {h[q][2] : q \in 1..p} :
        Cardinality({q \in 1..p : h[q] = <<"open", path>>})
            > Cardinality({q \in 1..p : h[q] = <<"close", path>>})}

\* C17: when DumpToFile returns, whichever opens succeeded, every handle
\* it opened is closed again; at no time is more than one handle open; and
\* the geometry file is opened, written and closed before the material
\* file is opened.
C17_HandlesClosedOneAtATime ==
    Returned =>
        LET d == dumpLog[1]
            h == d.handles
            obj == ObjPath(d.filename)
            mtl == MtlPath(d.filename)
        IN  /\ OpenAfter(h, Len(h)) = {}
            /\ \A p \in 0..Len(h) : Cardinality(OpenAfter(h, p)) <= 1
            /\ \A p \in 1..Len(h) :
                   /\ h[p][1] \in {"write", "close"}
                          => h[p][2] \in OpenAfter(h, p - 1)
                   /\ h[p] = <<"open", mtl>> =>
                          /\ \E q \in 1..(p - 1) : h[q] = <<"close", obj>>
                          /\ \A q \in p..Len(h) : h[q][2] # obj
            /\ d.objOpenable <=> \E p \in 1..Len(h) : h[p] = <<"open", obj>>
            /\ (d.objOpenable /\ d.mtlOpenable)
                   <=> \E p \in 1..Len(h) : h[p] = <<"open", mtl>>

\* The geometry file written and closed, the material file refused
C17_Witness ==
    /\ Returned
    /\ m_tris # <<>>
    /\ dumpLog[1].objOpenable /\ ~dumpLog[1].mtlOpenable
    /\ Len(dumpLog[1].handles) = 3
    /\ dumpLog[1].handles[3] = <<"close", ObjPath(dumpLog[1].filename)>>

-----------------------------------------------------------------------------
(* Claims about the plain wrap modes and the two axes, under SpecClamp *)

Plain(a) == a[1] \in {"CLAMP_CLAMP", "CLAMP_REPEAT"}

C18_Axis(a) == Plain(a) => a[5] = 0 /\ a[6] = a[4] - 1

C18_AxisU16(a) == (Plain(a) /\ a[4] <= U16Mod) => a[5] = 0 /\ a[6] = a[4] - 1

\* Inputs of one axis to put in the place of the actual ones: a region
\* clamp over the whole field range on the widest texture, and a plain
\* repeat on the narrowest
AxisSwaps ==
    {<<"CLAMP_REGION_CLAMP", 0, FieldTop, U16Mod + 1>>,
     <<"CLAMP_REPEAT", FieldTop, FieldTop, 1>>}

SwapU(c, a) ==
    [c EXCEPT !.WMS = a[1], !.MINU = a[2], !.MAXU = a[3], !.twidth = a[4]]

SwapV(c, a) ==
    [c EXCEPT !.WMT = a[1], !.MINV = a[2], !.MAXV = a[3], !.theight = a[4]]

Again(c) == GetTextureRegionForCLAMP(c, c.twidth, c.theight)

\* The bounds of each axis stay the same when the other axis's inputs are
\* swapped.  Holding for every input, this makes any two inputs that agree
\* on one axis return the same bounds for it: both return what the input
\* with the other axis swapped returns.
AxesIndependent ==
    \A a \in AxisSwaps :
        LET ru == Again(SwapV(clampIn, a))
            rv == Again(SwapU(clampIn, a))
        IN  /\ <<ru.u_min, ru.u_max>> = <<region[1].u_min, region[1].u_max>>
            /\ <<rv.v_min, rv.v_max>> = <<region[1].v_min, region[1].v_max>>

-----------------------------------------------------------------------------
(* Claims about the two files of one dump, under Spec *)

\* The names on the lines of directive k in a file
NamesOn(file, k) == {file[p].s : p \in {q \in 1..Len(file) : file[q].k = k}}

\* C19: after a DumpToFile that returned success, every name on a 'usemtl'
\* line of the geometry file is on a 'newmtl' line of the material file
\* written by the same dump.
C19_UsedMaterialsDefined ==
    (Returned /\ dumpLog[1].result) =>
        NamesOn(fs[ObjPath(dumpLog[1].filename)], "usemtl")
            \subseteq NamesOn(fs[MtlPath(dumpLog[1].filename)], "newmtl")

-----------------------------------------------------------------------------
(* Claims about the shape of the geometry file, under Spec *)

\* The directives of the vertex, texcoord and face lines of some lines, in
\* their order
Shape(lines) ==
    LET geo == SelectSeq(lines, LAMBDA l : l.k \in {"v", "vt", "f"})
    IN  [p \in 1..Len(geo) |-> geo[p].k]

\* C20: the geometry file holds, for each stored triangle in order, three
\* 'v' lines, then three 'vt' lines, then one 'f' line, so there are as many
\* 'v' as 'vt' lines and three times as many as 'f' lines; and the indices
\* of each face are -1..-3 and resolve to lines of its own triangle.
C20_ThreeVThreeVtOneF ==
    \A file \in GeometryFiles :
        LET blocks == Blocks(file) IN
        /\ Len(blocks) = Len(m_tris)
        /\ \A i \in Tris :
            LET face == blocks[i][Len(blocks[i])] IN
            /\ Shape(blocks[i]) = <<"v", "v", "v", "vt", "vt", "vt", "f">>
            /\ Kind(blocks[i], "v") = [m \in 1..3 |-> VLine(m_tris[i].verts[m])]
            /\ Kind(blocks[i], "vt") = [m \in 1..3 |-> VtLine(m_tris[i].verts[m])]
            /\ Len(face.n) = 6
            /\ \A m \in 1..3 :
                   /\ face.n[2 * m - 1] \in -3..-1
                   /\ face.n[2 * m] \in -3..-1
                   /\ Referred(blocks, "v", i, face.n[2 * m - 1])[1] = i
                   /\ Referred(blocks, "vt", i, face.n[2 * m])[1] = i
        /\ Len(Kind(file, "v")) = Len(Kind(file, "vt"))
        /\ Len(Kind(file, "v")) = 3 * Len(Kind(file, "f"))
        /\ Len(Kind(file, "f")) = Len(m_tris)

\* A file of two triangles where a group line and a material line stand
\* between the second triangle's texcoords and its face
C20_Witness ==
    \E file \in GeometryFiles :
        /\ Len(Kind(file, "f")) = 2
        /\ Len(Kind(file, "vt")) = 6
        /\ Kind(Blocks(file)[2], "g") # <<>>
        /\ Kind(Blocks(file)[2], "usemtl") # <<>>

=============================================================================
